---- MODULE Spec2Model ----
(***************************************************************************)
(* Model of src/cmd/apply.go of spicetify-cli: the commands Apply and      *)
(* UpdateAllExtension with the version gate (checkStates), the asset       *)
(* install, the stylesheet update, pushExtensions with its symbol remap of *)
(* module scripts, nodeModuleSymlink and pushApps.                         *)
(*                                                                         *)
(* Strings (paths, file contents, lines) are sequences over a finite       *)
(* alphabet of atoms.  A fixed literal of the source is one atom:          *)
(* ".mjs", ".js", "xpui", and DIRECTIVE for the text matched by            *)
(* `//\s*spicetify_map`.  "/" separates path segments and "\n" lines.      *)
(***************************************************************************)
EXTENDS Integers, Sequences, FiniteSets, TLC

VARIABLES
    cmd,             \* the public entry point that is running
    pc,              \* position of the run inside the entry point
    exitCode,        \* "running", or the exit status of the process
    backStat,        \* backupstatus.Get(...): [empty, outdated]
    spotStat,        \* spotifystatus.Get(appPath): a HostState
    destApplied,     \* spotifystatus.Get(appDestPath).IsApplied()
    replaceColors,   \* config: replace_colors
    overwriteAssets, \* config: overwrite_assets
    themeFolder,     \* the folder of current_theme, empty when it is blank
    extentionList,   \* featureSection "extensions"
    customAppsList,  \* featureSection "custom_apps"
    srcfs,           \* files outside the destination: path -> content
    dest,            \* the destination tree: relative path -> content
    dest0,           \* the destination tree when the run started
    extractedStock,  \* local of Apply
    extIdx,          \* loop index of pushExtensions (0-based, as in range)
    appIdx,          \* loop index of pushApps
    trace            \* the operations executed so far, in order

vars == <<cmd, pc, exitCode, backStat, spotStat, destApplied, replaceColors,
          overwriteAssets, themeFolder, extentionList, customAppsList, srcfs, dest, dest0,
          extractedStock, extIdx, appIdx, trace>>

----------------------------------------------------------------------------
(* Bounds of the inputs *)

\* longest module script, in lines
MaxLines == 3

----------------------------------------------------------------------------
(* strings *)

NL == "\n"
SEP == "/"
DIRECTIVE == "//spicetify_map"
MJS == ".mjs"

Min(S) == CHOOSE x \in S : \A y \in S : x <= y

Max(S) == CHOOSE x \in S : \A y \in S : x >= y

\* strings.HasSuffix
HasSuffix(s, suffix) ==
    /\ Len(s) >= Len(suffix)
    /\ SubSeq(s, Len(s) - Len(suffix) + 1, Len(s)) = suffix

\* positions where old occurs in s
Occurrences(s, old) ==
    {k \in 1..(Len(s) - Len(old) + 1) : SubSeq(s, k, k + Len(old) - 1) = old}

\* strings.Replace(s, old, new, 1), old not empty
ReplaceFirst(s, old, new) ==
    IF Occurrences(s, old) = {}
    THEN s
    ELSE LET k == Min(Occurrences(s, old))
         IN  SubSeq(s, 1, k - 1) \o new \o SubSeq(s, k + Len(old), Len(s))

\* strings.Split(content, "\n"): one more element than there are separators
RECURSIVE Split(_)
Split(content) ==
    LET nls == {k \in 1..Len(content) : content[k] = NL}
    IN  IF nls = {}
        THEN <<content>>
        ELSE LET k == Min(nls)
             IN  <<SubSeq(content, 1, k - 1)>>
                     \o Split(SubSeq(content, k + 1, Len(content)))

\* strings.Join(lines, "\n")
RECURSIVE JoinLines(_)
JoinLines(lines) ==
    IF Len(lines) = 0 THEN <<>>
    ELSE IF Len(lines) = 1 THEN lines[1]
    ELSE lines[1] \o <<NL>> \o JoinLines(Tail(lines))

\* filepath.Join of two non-empty paths
Join(a, b) == a \o <<SEP>> \o b

\* filepath.IsAbs
IsAbs(p) == Len(p) > 0 /\ p[1] = SEP

\* filepath.Base: the last element of the path
Base(p) ==
    LET seps == {k \in 1..Len(p) : p[k] = SEP}
    IN  IF seps = {} THEN p ELSE SubSeq(p, Max(seps) + 1, Len(p))

----------------------------------------------------------------------------
(* the symbol-map directive: //\s*spicetify_map\{(.+?)\}\{(.+?)\}          *)

\* the matches of the pattern that start at position p of the line:
\* <<j, m>> where line[j] closes the first group and line[m] the second
DirectiveMatches(line, p) ==
    IF ~(p + 1 <= Len(line) /\ line[p] = DIRECTIVE /\ line[p + 1] = "{")
    THEN {}
    ELSE {jm \in (1..Len(line)) \X (1..Len(line)) :
             /\ jm[1] >= p + 3
             /\ line[jm[1]] = "}"
             /\ jm[1] + 1 <= Len(line)
             /\ line[jm[1] + 1] = "{"
             /\ jm[2] >= jm[1] + 3
             /\ line[jm[2]] = "}"}

\* utils.FindSymbol("", line, {pattern}): the two capture groups of the
\* leftmost match, both groups as short as possible; <<>> without a match
FindSymbol(line) ==
    LET starts == {p \in 1..Len(line) : DirectiveMatches(line, p) # {}}
    IN  IF starts = {}
        THEN <<>>
        ELSE LET p == Min(starts)
                 j == Min({jm[1] : jm \in DirectiveMatches(line, p)})
                 m == Min({jm[2] : jm \in
                             {x \in DirectiveMatches(line, p) : x[1] = j}})
             IN  <<SubSeq(line, p + 2, j - 1), SubSeq(line, j + 2, m - 1)>>

\* the loop of the remap callback from index i (1-based here): the lines
\* when it ends, or a panic when lines[i+1] is indexed past the end
RECURSIVE RemapLoop(_, _)
RemapLoop(lines, i) ==
    IF i > Len(lines)
    THEN [panic |-> FALSE, lines |-> lines]
    ELSE LET mapping == FindSymbol(lines[i])
         IN  IF Len(mapping) > 0
             THEN IF i + 1 > Len(lines)
                  THEN [panic |-> TRUE, lines |-> lines]
                  ELSE RemapLoop(
                         [lines EXCEPT ![i + 1] =
                             ReplaceFirst(lines[i + 1], mapping[1], mapping[2])],
                         i + 1)
             ELSE RemapLoop(lines, i + 1)

\* the callback handed to utils.ModifyFile for a module script
Remap(content) ==
    LET r == RemapLoop(Split(content), 1)
    IN  [panic |-> r.panic, content |-> JoinLines(r.lines)]

----------------------------------------------------------------------------
(* folders and files *)

\* the content standing for a directory: Stat succeeds, reading fails
DIR == <<"<dir>">>

userExtensionsFolder == <<SEP, "cfg", SEP, "Extensions">>

userAppsFolder == <<SEP, "cfg", SEP, "CustomApps">>

GetExecutableDir == <<SEP, "exe">>

\* the destination folder of injected files, relative to appDestPath
xpui == <<"xpui">>

\* os.Stat(path) succeeds
Exists(fs, path) == path \in DOMAIN fs

\* os.ReadFile(path) succeeds
Readable(fs, path) == path \in DOMAIN fs /\ fs[path] # DIR

\* the tree with file path set to content
WriteFile(tree, path, content) ==
    [p \in DOMAIN tree \cup {path} |-> IF p = path THEN content ELSE tree[p]]

\* the files of src written over tree, restricted to the files in done
Overlay(tree, src, done) ==
    [p \in DOMAIN tree \cup done |-> IF p \in done THEN src[p] ELSE tree[p]]

\* utils.Copy(src, tree, true, nil) when it succeeds
Copy(src, tree) == Overlay(tree, src, DOMAIN src)

\* the tree without the files in gone
Remove(tree, gone) == [p \in DOMAIN tree \ gone |-> tree[p]]

EmptyTree == [p \in {} |-> <<>>]

\* rawFolder: the unmodified assets
RawTree ==
    [p \in {<<"zlink">>, Join(xpui, <<"xpui.css">>)} |->
        IF p = <<"zlink">> THEN <<"raw-zlink">> ELSE <<"raw-css">>]

\* themedFolder: the assets with the colors replaced
ThemedTree ==
    [p \in {Join(xpui, <<"xpui.css">>)} |-> <<"themed-css">>]

\* a destination as the host application installs it
StockDest ==
    [p \in {<<"zlink.spa">>, <<"zlink">>} |->
        IF p = <<"zlink.spa">> THEN <<"stock-spa">> ELSE <<"old-zlink">>]

\* a destination left by an earlier run
AppliedDest ==
    [p \in {<<"zlink">>, Join(xpui, <<"xpui.css">>),
            Join(xpui, <<"old", ".js">>)} |->
        IF p = <<"zlink">> THEN <<"raw-zlink">>
        ELSE IF p = Join(xpui, <<"xpui.css">>) THEN <<"older-css">>
        ELSE <<"old-extension">>]

InitialDests == {StockDest, AppliedDest}

----------------------------------------------------------------------------
(* collaborators of the version gate *)

HostStates == {"Stock", "Modified", "Mixed", "Unbackable",
               "RestrictedDistribution"}

IsBackupable(s) == s \in {"Stock", "Mixed"}

IsMixed(s) == s = "Mixed"

IsStock(s) == s = "Stock"

BackupStates == [empty : BOOLEAN, outdated : BOOLEAN]

\* one executed operation
Ev(op, arg) == [op |-> op, arg |-> arg]

\* positions of the operations op in a trace
Positions(t, ops) == {k \in 1..Len(t) : t[k].op \in ops}

\* the branch checkStates takes
GateDecisionOutdatedFirst(bs) ==
    IF bs.outdated THEN "WarnConfirm"
    ELSE IF bs.empty THEN "Abort"
    ELSE "Proceed"

GateDecisionAlwaysProceed(bs) == "Proceed"

GateDecisionAlwaysConfirm(bs) ==
    IF bs.empty THEN "Abort" ELSE "WarnConfirm"

GateDecision(bs) ==
    IF bs.empty THEN "Abort"
    ELSE IF bs.outdated THEN "WarnConfirm"
    ELSE "Proceed"

\* line 184: the answer that ends the run
DeclinedNever(answer) == FALSE

Declined(answer) == ~answer

\* the instruction printed with the mismatch warning
OutdatedInfo(s) ==
    IF IsMixed(s) THEN <<"just-updated", "backup-apply">>
    ELSE IF IsStock(s) THEN <<"backup-apply">>
    ELSE <<"reinstall">>

\* where the entry point continues when checkStates returns
AfterGate(c, list) ==
    IF c \in {"Apply", "UpdateTheme"} THEN "InitSetting"
    ELSE IF Len(list) > 0 THEN "pushExtensions"
    ELSE "done"

----------------------------------------------------------------------------
(* the version gate *)

Exit(code) ==
    /\ pc' = "exited"
    /\ exitCode' = code

\* checkStates returns to its caller after the operations events;
\* UpdateAllExtension with an empty list reports it and returns, line 150
GateReturns(events) ==
    /\ pc' = AfterGate(cmd, extentionList)
    /\ IF AfterGate(cmd, extentionList) = "done"
       THEN /\ trace' = trace \o events
                          \o <<Ev("PrintError", <<"no-extension">>)>>
            /\ exitCode' = "0"
       ELSE /\ trace' = trace \o events
            /\ exitCode' = exitCode

\* checkStates, lines 156-188
checkStates ==
    /\ pc = "checkStates"
    /\ IF GateDecision(backStat) = "Abort"
       THEN /\ trace' = trace \o
                  <<Ev("PrintError", IF IsBackupable(spotStat)
                                     THEN <<"backup-apply">>
                                     ELSE <<"reinstall">>),
                    Ev("os.Exit", <<"1">>)>>
            /\ Exit("1")
       ELSE IF GateDecision(backStat) = "WarnConfirm"
       THEN \E answer \in BOOLEAN :
               IF Declined(answer)
               THEN /\ trace' = trace \o
                          <<Ev("PrintWarning", <<"mismatched">>),
                            Ev("PrintInfo", OutdatedInfo(spotStat)),
                            Ev("ReadAnswer", IF answer THEN <<"y">> ELSE <<"n">>),
                            Ev("os.Exit", <<"1">>)>>
                    /\ Exit("1")
               ELSE GateReturns(
                          <<Ev("PrintWarning", <<"mismatched">>),
                            Ev("PrintInfo", OutdatedInfo(spotStat)),
                            Ev("ReadAnswer", IF answer THEN <<"y">> ELSE <<"n">>)>>)
       ELSE GateReturns(<<>>)
    /\ UNCHANGED <<cmd, backStat, spotStat, destApplied, replaceColors,
                   overwriteAssets, themeFolder, extentionList, customAppsList, srcfs,
                   dest, dest0, extractedStock, extIdx, appIdx>>

----------------------------------------------------------------------------
(* Apply: the asset install and the stylesheet *)

\* the statements of Apply after the gate, in program order, lines 20-77
ApplyStepsStyleFirst ==
    <<"InitSetting", "updateCSS", "extractStock", "overwriteAssets",
      "exposeApis">>

ApplySteps ==
    <<"InitSetting", "extractStock", "overwriteAssets", "updateCSS",
      "exposeApis">>

StepAfter(p) ==
    ApplySteps[(CHOOSE k \in 1..Len(ApplySteps) : ApplySteps[k] = p) + 1]

\* line 27: the destination was never applied
NeverAppliedAlways(applied) == TRUE

NeverApplied(applied) == ~applied

\* line 29: the destination after os.RemoveAll
RemoveAllKeeps(tree) == tree

RemoveAll(tree) == EmptyTree

\* line 45: the raw assets are not copied a second time
SkipRawNever(extracted) == FALSE

SkipRaw(extracted) == extracted

\* the theme folders of the runs: UpdateTheme runs with a theme and with
\* current_theme blank, the other commands with a theme
ThemeFolders(c) ==
    IF c = "UpdateTheme" THEN {<<>>, <<"theme">>} ELSE {<<"theme">>}

\* InitSetting, lines 20 and 110: loads the settings of the run from the
\* config
InitSetting ==
    /\ pc = "InitSetting"
    /\ \E rc \in BOOLEAN, oa \in BOOLEAN, tf \in ThemeFolders(cmd) :
          /\ replaceColors' = rc
          /\ overwriteAssets' = oa
          /\ themeFolder' = tf
    /\ pc' = IF cmd = "UpdateTheme" THEN "updateTheme" ELSE StepAfter(pc)
    /\ UNCHANGED <<cmd, exitCode, backStat, spotStat, destApplied,
                   extentionList, customAppsList, srcfs, dest, dest0,
                   extractedStock, extIdx, appIdx, trace>>

\* a failed operation that is reported and then ignored
FatalIgnored(partial, events) ==
    /\ dest' = partial
    /\ trace' = trace \o events \o <<Ev("utils.Fatal", <<"1">>)>>
    /\ pc' = StepAfter(pc)
    /\ UNCHANGED <<exitCode, extractedStock>>

\* utils.Fatal after a failed operation that left the tree as partial
Fatal(partial, events) ==
    /\ dest' = partial
    /\ trace' = trace \o events \o <<Ev("utils.Fatal", <<"1">>)>>
    /\ Exit("1")
    /\ UNCHANGED extractedStock

\* Apply, lines 26-37: the raw assets of a destination never applied
ExtractStock ==
    /\ pc = "extractStock"
    /\ IF NeverApplied(destApplied)
       THEN \/ \E gone \in SUBSET DOMAIN dest :
                  /\ gone # DOMAIN dest
                  /\ Fatal(Remove(dest, gone), <<Ev("os.RemoveAll", <<"err">>)>>)
            \/ \E done \in SUBSET DOMAIN RawTree :
                  Fatal(Overlay(RemoveAll(dest), RawTree, done),
                        <<Ev("os.RemoveAll", <<"ok">>),
                          Ev("Copy:rawFolder", <<"err">>)>>)
            \/ /\ dest' = Copy(RawTree, RemoveAll(dest))
               /\ trace' = trace \o <<Ev("os.RemoveAll", <<"ok">>),
                                      Ev("Copy:rawFolder", <<"ok">>)>>
               /\ extractedStock' = TRUE
               /\ pc' = StepAfter(pc)
               /\ UNCHANGED exitCode
       ELSE /\ extractedStock' = FALSE
            /\ pc' = StepAfter(pc)
            /\ UNCHANGED <<dest, trace, exitCode>>
    /\ UNCHANGED <<cmd, backStat, spotStat, destApplied, replaceColors,
                   overwriteAssets, themeFolder, extentionList, customAppsList, srcfs,
                   dest0, extIdx, appIdx>>

\* Apply, lines 39-51: the themed assets, or the raw ones not yet copied
OverwriteAssets ==
    /\ pc = "overwriteAssets"
    /\ IF replaceColors
       THEN \/ \E done \in SUBSET DOMAIN ThemedTree :
                  Fatal(Overlay(dest, ThemedTree, done),
                        <<Ev("Copy:themedFolder", <<"err">>)>>)
            \/ /\ dest' = Copy(ThemedTree, dest)
               /\ trace' = trace \o <<Ev("Copy:themedFolder", <<"ok">>)>>
               /\ pc' = StepAfter(pc)
               /\ UNCHANGED <<exitCode, extractedStock>>
       ELSE IF ~SkipRaw(extractedStock)
       THEN \/ \E done \in SUBSET DOMAIN RawTree :
                  Fatal(Overlay(dest, RawTree, done),
                        <<Ev("Copy:rawFolder", <<"err">>)>>)
            \/ /\ dest' = Copy(RawTree, dest)
               /\ trace' = trace \o <<Ev("Copy:rawFolder", <<"ok">>)>>
               /\ pc' = StepAfter(pc)
               /\ UNCHANGED <<exitCode, extractedStock>>
       ELSE /\ pc' = StepAfter(pc)
            /\ UNCHANGED <<dest, trace, exitCode, extractedStock>>
    /\ UNCHANGED <<cmd, backStat, spotStat, destApplied, replaceColors,
                   overwriteAssets, themeFolder, extentionList, customAppsList, srcfs,
                   dest0, extIdx, appIdx>>

\* apply.UserCSS: the destination stylesheet, determined by the settings
UserCSS(tree) == WriteFile(tree, Join(xpui, <<"user.css">>), <<"user-css">>)

\* apply.UserAsset: the assets of the theme copied into xpui
UserAsset(tree) ==
    WriteFile(tree, Join(xpui, <<"theme-asset">>), <<"theme-asset">>)

\* Apply, lines 53-61: updateCSS, then updateAssets when overwriteAssets
UpdateCSS ==
    /\ pc = "updateCSS"
    /\ IF overwriteAssets
       THEN /\ dest' = UserAsset(UserCSS(dest))
            /\ trace' = trace \o <<Ev("updateCSS", <<>>),
                                   Ev("updateAssets", <<>>)>>
       ELSE /\ dest' = UserCSS(dest)
            /\ trace' = trace \o <<Ev("updateCSS", <<>>)>>
    /\ pc' = StepAfter(pc)
    /\ UNCHANGED <<cmd, exitCode, backStat, spotStat, destApplied,
                   replaceColors, overwriteAssets, themeFolder, extentionList,
                   customAppsList, srcfs, dest0, extractedStock, extIdx,
                   appIdx>>

\* UpdateTheme, lines 112-124, after checkStates and InitSetting
UpdateTheme ==
    /\ pc = "updateTheme"
    /\ IF Len(themeFolder) = 0
       THEN /\ trace' = trace \o <<Ev("PrintWarning", <<"current_theme blank">>),
                                    Ev("os.Exit", <<"1">>)>>
            /\ dest' = dest
            /\ Exit("1")
       ELSE /\ IF overwriteAssets
               THEN /\ dest' = UserAsset(UserCSS(dest))
                    /\ trace' = trace \o
                          <<Ev("updateCSS", <<>>),
                            Ev("PrintSuccess", <<"css">>),
                            Ev("updateAssets", <<>>),
                            Ev("PrintSuccess", <<"assets">>)>>
               ELSE /\ dest' = UserCSS(dest)
                    /\ trace' = trace \o <<Ev("updateCSS", <<>>),
                                           Ev("PrintSuccess", <<"css">>)>>
            /\ pc' = "done"
            /\ exitCode' = "0"
    /\ UNCHANGED <<cmd, backStat, spotStat, destApplied, replaceColors,
                   overwriteAssets, themeFolder, extentionList,
                   customAppsList, srcfs, dest0, extractedStock, extIdx,
                   appIdx>>

\* Apply, lines 63-77: the wrapper when expose_apis is set, then
\* apply.AdditionalOptions; line 79 and 86 choose what runs next
AfterOptions(exts, apps) ==
    IF Len(exts) > 0 THEN "pushExtensions"
    ELSE IF Len(apps) > 0 THEN "pushApps"
    ELSE "patch"

AdditionalOptions ==
    /\ pc = "exposeApis"
    /\ \E expose \in BOOLEAN :
          IF expose
          THEN /\ dest' = WriteFile(dest, Join(xpui, <<"spicetifyWrapper", ".js">>),
                                    <<"wrapper">>)
               /\ trace' = trace \o <<Ev("CopyFile:spicetifyWrapper", <<>>),
                                      Ev("AdditionalOptions", <<>>)>>
          ELSE /\ dest' = dest
               /\ trace' = trace \o <<Ev("AdditionalOptions", <<>>)>>
    /\ pc' = AfterOptions(extentionList, customAppsList)
    /\ UNCHANGED <<cmd, exitCode, backStat, spotStat, destApplied,
                   replaceColors, overwriteAssets, themeFolder, extentionList,
                   customAppsList, srcfs, dest0, extractedStock, extIdx,
                   appIdx>>

----------------------------------------------------------------------------
(* pushExtensions *)

\* a resolution that uses the bundled folder before the user folder
getExtensionPathBundledFirst(fs, name) ==
    IF Exists(fs, Join(Join(GetExecutableDir, <<"Extensions">>), name))
    THEN [err |-> FALSE,
          path |-> Join(Join(GetExecutableDir, <<"Extensions">>), name)]
    ELSE IF Exists(fs, Join(userExtensionsFolder, name))
    THEN [err |-> FALSE, path |-> Join(userExtensionsFolder, name)]
    ELSE [err |-> TRUE, path |-> <<>>]

\* getExtensionPath, lines 190-204
getExtensionPath(fs, name) ==
    IF Exists(fs, Join(userExtensionsFolder, name))
    THEN [err |-> FALSE, path |-> Join(userExtensionsFolder, name)]
    ELSE IF Exists(fs, Join(Join(GetExecutableDir, <<"Extensions">>), name))
    THEN [err |-> FALSE,
          path |-> Join(Join(GetExecutableDir, <<"Extensions">>), name)]
    ELSE [err |-> TRUE, path |-> <<>>]

\* utils.ModifyFile(path, Remap) on a tree: the file rewritten, the tree as
\* it was when the file cannot be read, or the panic of the callback
ModifyFile(tree, path) ==
    IF ~Readable(tree, path)
    THEN [panic |-> FALSE, tree |-> tree]
    ELSE LET r == Remap(tree[path])
         IN  IF r.panic
             THEN [panic |-> TRUE, tree |-> tree]
             ELSE [panic |-> FALSE, tree |-> WriteFile(tree, path, r.content)]

\* one iteration of the loop of pushExtensions, lines 210-245, for item v:
\* the destination, the operations executed and whether the process died
ExtensionItem(fs, tree, v) ==
    LET extName == IF IsAbs(v) THEN Base(v) ELSE v
        found   == IF IsAbs(v) THEN [err |-> FALSE, path |-> v]
                   ELSE getExtensionPath(fs, v)
        extPath == found.path
        copied  == WriteFile(tree, Join(xpui, Base(extPath)), fs[extPath])
        remap   == ModifyFile(copied, Join(xpui, extName))
    IN  IF found.err
        THEN [tree |-> tree, panic |-> FALSE,
              events |-> <<Ev("PrintError:not-found", extName)>>]
        ELSE IF ~Readable(fs, extPath)
        THEN [tree |-> tree, panic |-> FALSE,
              events |-> <<Ev("CopyFile", extPath),
                           Ev("PrintError:copy", extName)>>]
        ELSE IF HasSuffix(extName, <<MJS>>)
        THEN [tree |-> remap.tree, panic |-> remap.panic,
              events |-> <<Ev("CopyFile", extPath),
                           Ev("ModifyFile", Join(xpui, extName))>>
                         \o IF remap.panic
                            THEN <<Ev("panic", <<"index out of range">>)>>
                            ELSE <<>>]
        ELSE [tree |-> copied, panic |-> FALSE,
              events |-> <<Ev("CopyFile", extPath)>>]

\* where the entry point continues when pushExtensions returns
AfterExtensions(c) == IF c = "Apply" THEN "nodeModuleSymlink" ELSE "done"

\* pushExtensions, lines 206-246: one item of the list per step
pushExtensions ==
    /\ pc = "pushExtensions"
    /\ extIdx < Len(extentionList)
    /\ LET r    == ExtensionItem(srcfs, dest, extentionList[extIdx + 1])
           last == extIdx + 1 = Len(extentionList)
       IN  /\ dest' = r.tree
           /\ extIdx' = extIdx + 1
           /\ IF r.panic
              THEN /\ trace' = trace \o r.events
                   /\ Exit("2")
              ELSE IF last /\ AfterExtensions(cmd) = "done"
              THEN /\ trace' = trace \o r.events
                                 \o <<Ev("PrintSuccess", <<"extensions">>)>>
                   /\ pc' = "done"
                   /\ exitCode' = "0"
              ELSE /\ trace' = trace \o r.events
                   /\ pc' = IF last THEN AfterExtensions(cmd) ELSE pc
                   /\ UNCHANGED exitCode
    /\ UNCHANGED <<cmd, backStat, spotStat, destApplied, replaceColors,
                   overwriteAssets, themeFolder, extentionList, customAppsList, srcfs,
                   dest0, extractedStock, appIdx>>

\* nodeModuleSymlink, lines 337-352
nodeModuleSymlink ==
    /\ pc = "nodeModuleSymlink"
    /\ LET found == getExtensionPath(srcfs, <<"node_modules">>)
       IN  IF found.err
           THEN UNCHANGED <<dest, trace>>
           ELSE \E ok \in BOOLEAN :
                   IF ok
                   THEN /\ dest' = WriteFile(dest, Join(xpui, <<"node_modules">>),
                                             <<"->">> \o found.path)
                        /\ trace' = trace \o
                              <<Ev("CreateJunction", found.path)>>
                   ELSE /\ dest' = dest
                        /\ trace' = trace \o
                              <<Ev("CreateJunction", found.path),
                                Ev("PrintError:symlink", <<>>)>>
    /\ pc' = IF Len(customAppsList) > 0 THEN "pushApps" ELSE "patch"
    /\ UNCHANGED <<cmd, exitCode, backStat, spotStat, destApplied,
                   replaceColors, overwriteAssets, themeFolder, extentionList,
                   customAppsList, srcfs, dest0, extractedStock, extIdx,
                   appIdx>>

----------------------------------------------------------------------------
(* pushApps *)

\* getCustomAppPath, lines 248-262
getCustomAppPath(fs, name) ==
    IF Exists(fs, Join(userAppsFolder, name))
    THEN [err |-> FALSE, path |-> Join(userAppsFolder, name)]
    ELSE IF Exists(fs, Join(Join(GetExecutableDir, <<"CustomApps">>), name))
    THEN [err |-> FALSE,
          path |-> Join(Join(GetExecutableDir, <<"CustomApps">>), name)]
    ELSE [err |-> TRUE, path |-> <<>>]

SUBFILES == "\"subfiles\":["

\* json.Unmarshal into appManifest: a manifest is "{" "}" or
\* "{" SUBFILES name ... "]" "}"; anything else is a parse error
Unmarshal(content) ==
    LET n == Len(content)
    IN  IF n = 2 /\ content[1] = "{" /\ content[2] = "}"
        THEN [err |-> FALSE, Files |-> <<>>]
        ELSE IF /\ n >= 4
                /\ content[1] = "{" /\ content[2] = SUBFILES
                /\ content[n - 1] = "]" /\ content[n] = "}"
                /\ \A k \in 3..(n - 2) : content[k] \notin {"{", "}", "]", SUBFILES}
        THEN [err |-> FALSE, Files |-> SubSeq(content, 3, n - 2)]
        ELSE [err |-> TRUE, Files |-> <<>>]

\* a concatenation that ends at the first subfile that cannot be read
RECURSIVE AppendSubfilesUntilUnreadable(_, _, _, _, _)
AppendSubfilesUntilUnreadable(fs, customAppPath, files, k, js) ==
    IF k > Len(files) THEN js
    ELSE IF ~Readable(fs, Join(customAppPath, <<files[k]>>))
    THEN js
    ELSE AppendSubfilesUntilUnreadable(
             fs, customAppPath, files, k + 1,
             js \o <<NL>> \o fs[Join(customAppPath, <<files[k]>>)])

\* lines 297-305: the subfiles from index k that can be read, each after a
\* newline
RECURSIVE AppendSubfiles(_, _, _, _, _)
AppendSubfiles(fs, customAppPath, files, k, js) ==
    IF k > Len(files) THEN js
    ELSE IF ~Readable(fs, Join(customAppPath, <<files[k]>>))
    THEN AppendSubfiles(fs, customAppPath, files, k + 1, js)
    ELSE AppendSubfiles(fs, customAppPath, files, k + 1,
                        js \o <<NL>> \o fs[Join(customAppPath, <<files[k]>>)])

\* lines 308-314: the module chunk around the script
jsTemplate(appName, jsFileContent) ==
    <<"(...webpackChunkopen||[])\n.push([[\"">> \o appName
        \o <<"\"],{\"">> \o appName
        \o <<"\":(e,t,n)=>{\n\"use strict\";...render});\n">>
        \o jsFileContent \o <<"\n}}]);">>

\* lines 285-289: the manifest as read, or {} when it cannot be read
ReadManifestNoDefault(fs, manifestFile) ==
    IF Readable(fs, manifestFile) THEN fs[manifestFile] ELSE <<>>

ReadManifest(fs, manifestFile) ==
    IF Readable(fs, manifestFile) THEN fs[manifestFile] ELSE <<"{", "}">>

\* an iteration that writes the manifest before it looks for index.js
AppItemManifestFirst(fs, tree, app) ==
    LET appName == <<"spicetify-routes-">> \o app
        found   == getCustomAppPath(fs, app)
        written ==
            WriteFile(tree, Join(xpui, appName \o <<".json">>),
                      ReadManifest(fs, Join(found.path, <<"manifest.json">>)))
    IN  IF found.err
        THEN [tree |-> tree,
              events |-> <<Ev("PrintError:app-not-found", app)>>]
        ELSE IF ~Readable(fs, Join(found.path, <<"index.js">>))
        THEN [tree |-> written,
              events |-> <<Ev("WriteFile", Join(xpui, appName \o <<".json">>)),
                           Ev("PrintError:no-index.js", app)>>]
        ELSE [tree |->
                WriteFile(
                  WriteFile(written, Join(xpui, appName \o <<".js">>),
                            jsTemplate(appName,
                                       fs[Join(found.path, <<"index.js">>)])),
                  Join(xpui, appName \o <<".css">>), <<>>),
              events |-> <<Ev("WriteFile", Join(xpui, appName \o <<".json">>)),
                           Ev("WriteFile", Join(xpui, appName \o <<".js">>)),
                           Ev("WriteFile", Join(xpui, appName \o <<".css">>))>>]

\* one iteration of the loop of pushApps, lines 269-330, for item app
AppItem(fs, tree, app) ==
    LET appName  == <<"spicetify-routes-">> \o app
        found    == getCustomAppPath(fs, app)
        jsFile   == Join(found.path, <<"index.js">>)
        manifestFile == Join(found.path, <<"manifest.json">>)
        manifestFileContent == ReadManifest(fs, manifestFile)
        manifestJson == Unmarshal(manifestFileContent)
        jsFileContent ==
            IF manifestJson.err THEN fs[jsFile]
            ELSE AppendSubfiles(fs, found.path, manifestJson.Files, 1,
                                fs[jsFile])
        cssFile  == Join(found.path, <<"style.css">>)
        cssFileContent == IF Readable(fs, cssFile) THEN fs[cssFile] ELSE <<>>
    IN  IF found.err
        THEN [tree |-> tree,
              events |-> <<Ev("PrintError:app-not-found", app)>>]
        ELSE IF ~Readable(fs, jsFile)
        THEN [tree |-> tree,
              events |-> <<Ev("PrintError:no-index.js", app)>>]
        ELSE [tree |->
                WriteFile(
                  WriteFile(
                    WriteFile(tree, Join(xpui, appName \o <<".json">>),
                              manifestFileContent),
                    Join(xpui, appName \o <<".js">>),
                    jsTemplate(appName, jsFileContent)),
                  Join(xpui, appName \o <<".css">>), cssFileContent),
              events |-> <<Ev("WriteFile", Join(xpui, appName \o <<".json">>)),
                           Ev("WriteFile", Join(xpui, appName \o <<".js">>)),
                           Ev("WriteFile", Join(xpui, appName \o <<".css">>))>>]

\* pushApps, lines 268-331: one item of the list per step
pushApps ==
    /\ pc = "pushApps"
    /\ appIdx < Len(customAppsList)
    /\ LET r == AppItem(srcfs, dest, customAppsList[appIdx + 1])
       IN  /\ dest' = r.tree
           /\ trace' = trace \o r.events
    /\ appIdx' = appIdx + 1
    /\ pc' = IF appIdx + 1 = Len(customAppsList) THEN "patch" ELSE pc
    /\ UNCHANGED <<cmd, exitCode, backStat, spotStat, destApplied,
                   replaceColors, overwriteAssets, themeFolder, extentionList,
                   customAppsList, srcfs, dest0, extractedStock, extIdx>>

\* Apply, lines 92-105: Patch when the config has patches, then the
\* success report
Finish ==
    /\ pc = "patch"
    /\ \E patches \in BOOLEAN :
          trace' = trace \o (IF patches THEN <<Ev("Patch", <<>>)>> ELSE <<>>)
                         \o <<Ev("PrintSuccess", <<"spiced up">>)>>
    /\ pc' = "done"
    /\ exitCode' = "0"
    /\ UNCHANGED <<cmd, backStat, spotStat, destApplied, replaceColors,
                   overwriteAssets, themeFolder, extentionList, customAppsList, srcfs,
                   dest, dest0, extractedStock, extIdx, appIdx>>

----------------------------------------------------------------------------
(* the inputs of a run *)

A_JS == <<"a", ".js">>
M_MJS == <<"m", MJS>>
ABS_MJS == <<SEP, "opt", SEP, "x", MJS>>
APP1 == <<"app1">>
GHOST == <<"ghost">>

Dir(a, b) == <<DIRECTIVE, "{">> \o a \o <<"}", "{">> \o b \o <<"}">>

\* the lines module scripts are made of
LinePool ==
    {<<>>, <<"a">>, <<"a", "a">>, <<"c">>,
     Dir(<<"a">>, <<"b">>), Dir(<<"b">>, <<"c">>), Dir(<<"a", "a">>, <<"c">>)}

\* the module scripts of at most MaxLines lines
Scripts ==
    {JoinLines(ls) : ls \in UNION {[1..n -> LinePool] : n \in 1..MaxLines}}

File(path, content) == [p \in {path} |-> content]

\* the union of two file systems with disjoint paths
Merge(a, b) ==
    [p \in DOMAIN a \cup DOMAIN b |-> IF p \in DOMAIN a THEN a[p] ELSE b[p]]

\* the file system of a set of <<path, content>>
Files(pairs) ==
    [p \in {q[1] : q \in pairs} |-> (CHOOSE q \in pairs : q[1] = p)[2]]

InUser(name) == Join(userExtensionsFolder, name)

InBundled(name) == Join(Join(GetExecutableDir, <<"Extensions">>), name)

SampleScript == JoinLines(<<Dir(<<"a">>, <<"b">>), <<"a", "a">>, <<"c">> >>)

\* one custom app in the user folder, with a manifest of two subfiles of
\* which the first is missing
AppFs ==
    LET d == Join(userAppsFolder, APP1)
    IN  Files({<<d, DIR>>,
               <<Join(d, <<"index.js">>), <<"index">> >>,
               <<Join(d, <<"manifest.json">>),
                 <<"{", SUBFILES, "gone.js", "extra.js", "]", "}">> >>,
               <<Join(d, <<"extra.js">>), <<"extra">> >>,
               <<Join(d, <<"style.css">>), <<"style">> >>})

\* the extensions of the runs of Apply
BaseFs ==
    Merge(AppFs,
          Files({<<InUser(A_JS), <<"user-a">> >>,
                 <<InBundled(A_JS), <<"bundled-a">> >>,
                 <<InUser(M_MJS), SampleScript>>,
                 <<ABS_MJS, SampleScript>>}))

Scenario(exts, apps, fs) == [exts |-> exts, apps |-> apps, fs |-> fs]

ApplyScenarios ==
    {Scenario(exts, apps, fs) :
        exts \in {<<>>, <<A_JS>>, <<M_MJS, A_JS>>},
        apps \in {<<>>, <<APP1>>, <<GHOST, APP1>>},
        fs \in {BaseFs, Merge(BaseFs, File(InBundled(<<"node_modules">>), DIR))}}

\* file systems where each name is in the user folder, the bundled folder,
\* both or neither
ResolutionFs ==
    {[p \in {InUser(n) : n \in inUser} \cup {InBundled(n) : n \in inBundled}
         \cup {ABS_MJS} |->
        IF p = ABS_MJS THEN SampleScript
        ELSE IF p \in {InUser(n) : n \in inUser}
        THEN (IF Base(p) = M_MJS THEN SampleScript ELSE <<"user-a">>)
        ELSE (IF Base(p) = M_MJS THEN <<"c">> ELSE <<"bundled-a">>)] :
        inUser \in SUBSET {A_JS, M_MJS}, inBundled \in SUBSET {A_JS, M_MJS}}

\* runs of UpdateAllExtension: every resolution of two names, and every
\* module script in front of a second extension
ExtScenarios ==
    {Scenario(exts, <<>>, fs) :
        exts \in {<<A_JS>>, <<M_MJS>>, <<A_JS, M_MJS>>, <<ABS_MJS, A_JS>>},
        fs \in ResolutionFs}
    \cup
    {Scenario(exts, <<>>,
              Files({<<InUser(M_MJS), script>>, <<InUser(A_JS), <<"user-a">> >>})) :
        exts \in {<<M_MJS>>, <<M_MJS, A_JS>>}, script \in Scripts}

InitOf(cmds, hosts, scenarios) ==
    /\ cmd \in cmds
    /\ pc = "checkStates"
    /\ exitCode = "running"
    /\ backStat \in BackupStates
    /\ spotStat \in hosts
    /\ destApplied \in BOOLEAN
    /\ replaceColors = FALSE
    /\ overwriteAssets = FALSE
    /\ themeFolder = <<>>
    /\ \E sc \in scenarios :
          /\ extentionList = sc.exts
          /\ customAppsList = sc.apps
          /\ srcfs = sc.fs
    /\ dest \in InitialDests
    /\ dest0 = dest
    /\ extractedStock = FALSE
    /\ extIdx = 0
    /\ appIdx = 0
    /\ trace = <<>>

----------------------------------------------------------------------------
(* the command Apply *)

Init == InitOf({"Apply"}, HostStates, ApplyScenarios)

Next ==
    \/ checkStates
    \/ InitSetting
    \/ ExtractStock
    \/ OverwriteAssets
    \/ UpdateCSS
    \/ AdditionalOptions
    \/ pushExtensions
    \/ nodeModuleSymlink
    \/ pushApps
    \/ Finish

Spec == Init /\ [][Next]_vars

(* the command UpdateAllExtension, lines 143-152 *)

InitExt == InitOf({"UpdateAllExtension"}, {"Stock"}, ExtScenarios)

NextExt ==
    \/ checkStates
    \/ pushExtensions

SpecExt == InitExt /\ [][NextExt]_vars

----------------------------------------------------------------------------
(* Apply with every kind of extension, link and custom-app item *)

\* longest list of subfiles in a manifest
MaxSubfiles == 2

\* longest extension list
MaxExts == 3

APP2 == <<"app2">>
GONE_JS == <<"gone", ".js">>
DIR_JS == <<"dir", ".js">>
P_MJS == <<"p", MJS>>
NODE_MODULES == <<"node_modules">>

SeqsUpTo(S, lo, hi) == UNION {[1..n -> S] : n \in lo..hi}

AppInUser(app) == Join(userAppsFolder, app)

AppInBundled(app) == Join(Join(GetExecutableDir, <<"CustomApps">>), app)

SubNames == {"x.js", "y.js"}

\* a manifest that lists the subfiles of list
ManifestOf(list) == <<"{", SUBFILES>> \o list \o <<"]", "}">>

\* manifests json.Unmarshal rejects
BadManifests == {<<"{">>, <<"{", SUBFILES, "x.js", "}">>, <<"oops">>}

\* the folder d of a custom app: index, manifest and css are sets of at
\* most one content, subs the subfiles that exist
AppFolder(d, tag, index, manifest, subs, css) ==
    Files({<<d, DIR>>}
          \cup {<<Join(d, <<"index.js">>), c>> : c \in index}
          \cup {<<Join(d, <<"manifest.json">>), c>> : c \in manifest}
          \cup {<<Join(d, <<n>>), <<tag, n>> >> : n \in subs}
          \cup {<<Join(d, <<"style.css">>), c>> : c \in css})

Index(tag) == <<tag, "index.js">>

Style(tag) == <<tag, "style.css">>

\* app2: an entry script and nothing else, in the bundled folder
App2Fs == AppFolder(AppInBundled(APP2), "app2", {Index("app2")}, {}, {}, {})

\* app1 with every manifest of at most MaxSubfiles subfiles and every set
\* of subfiles that exist
PayloadFs ==
    {Merge(App2Fs,
           AppFolder(AppInUser(APP1), "u", {Index("u")}, {ManifestOf(list)},
                     subs, {Style("u")})) :
        list \in SeqsUpTo(SubNames, 0, MaxSubfiles), subs \in SUBSET SubNames}

\* app1 with no manifest, a manifest that is a directory, an empty
\* manifest and the manifests that do not parse
ManifestFs ==
    {Merge(App2Fs,
           AppFolder(AppInUser(APP1), "u", {Index("u")}, manifest, SubNames,
                     css)) :
        manifest \in {{}, {DIR}, {<<"{", "}">>}} \cup {{m} : m \in BadManifests},
        css \in {{}, {Style("u")}}}

\* app1 in the user folder, the bundled folder, both or neither, with and
\* without an entry script
ResolutionAppFs ==
    {Merge(App2Fs,
           Merge(IF inUser
                 THEN AppFolder(AppInUser(APP1), "u", index, manifest,
                                SubNames, css)
                 ELSE EmptyTree,
                 IF inBundled
                 THEN AppFolder(AppInBundled(APP1), "b", {Index("b")},
                                {ManifestOf(<<"y.js">>)}, SubNames,
                                {Style("b")})
                 ELSE EmptyTree)) :
        inUser \in BOOLEAN, inBundled \in BOOLEAN,
        index \in {{}, {DIR}, {Index("u")}},
        manifest \in {{}, {ManifestOf(<<"x.js">>)}, {<<"oops">>}},
        css \in {{}, {Style("u")}}}

AppScenarios ==
    {Scenario(<<>>, apps, fs) :
        apps \in {<<APP1>>, <<APP1, APP2>>},
        fs \in PayloadFs \cup ManifestFs \cup ResolutionAppFs}

\* a script whose last line is a directive
PanicScript == JoinLines(<<Dir(<<"a">>, <<"b">>), <<"a">>, Dir(<<"a">>, <<"b">>)>>)

\* a.js in both folders, dir.js a directory, gone.js nowhere
ItemFs ==
    Merge(App2Fs,
          Files({<<InUser(A_JS), <<"user-a">> >>,
                 <<InBundled(A_JS), <<"bundled-a">> >>,
                 <<InUser(DIR_JS), DIR>>,
                 <<InUser(M_MJS), SampleScript>>,
                 <<InUser(P_MJS), PanicScript>>}))

ExtItemScenarios ==
    {Scenario(exts, apps, ItemFs) :
        exts \in SeqsUpTo({A_JS, GONE_JS, DIR_JS, M_MJS, P_MJS}, 1, MaxExts),
        apps \in {<<GHOST>>}}

\* node_modules in the user folder, the bundled folder, both or neither
LinkFs ==
    {Merge(ItemFs,
           Files({<<InUser(NODE_MODULES), DIR>> : u \in inUser}
                 \cup {<<InBundled(NODE_MODULES), DIR>> : b \in inBundled})) :
        inUser \in SUBSET {1}, inBundled \in SUBSET {1}}

LinkScenarios ==
    {Scenario(exts, apps, fs) :
        exts \in {<<>>, <<A_JS>>, <<GONE_JS, A_JS>>},
        apps \in {<<>>, <<APP2>>},
        fs \in LinkFs}

\* a destination that holds the bundle of an earlier run
ItemsDest ==
    WriteFile(
      WriteFile(AppliedDest,
                Join(xpui, <<"spicetify-routes-", "app1", ".js">>),
                <<"old-bundle">>),
      Join(xpui, <<"spicetify-routes-", "app1", ".css">>), <<"old-style">>)

InitItems ==
    /\ cmd = "Apply"
    /\ pc = "checkStates"
    /\ exitCode = "running"
    /\ backStat = [empty |-> FALSE, outdated |-> FALSE]
    /\ spotStat = "Modified"
    /\ destApplied = TRUE
    /\ replaceColors = FALSE
    /\ overwriteAssets = FALSE
    /\ themeFolder = <<>>
    /\ \E sc \in AppScenarios \cup ExtItemScenarios \cup LinkScenarios :
          /\ extentionList = sc.exts
          /\ customAppsList = sc.apps
          /\ srcfs = sc.fs
    /\ dest = ItemsDest
    /\ dest0 = dest
    /\ extractedStock = FALSE
    /\ extIdx = 0
    /\ appIdx = 0
    /\ trace = <<>>

SpecItems == InitItems /\ [][Next]_vars

(* the three commands *)

InitAll ==
    InitOf({"Apply", "UpdateTheme", "UpdateAllExtension"}, {"Stock", "Unbackable"},
           ApplyScenarios)

NextAll ==
    \/ checkStates
    \/ InitSetting
    \/ ExtractStock
    \/ OverwriteAssets
    \/ UpdateCSS
    \/ UpdateTheme
    \/ AdditionalOptions
    \/ pushExtensions
    \/ nodeModuleSymlink
    \/ pushApps
    \/ Finish

SpecAll == InitAll /\ [][NextAll]_vars

----------------------------------------------------------------------------
(* the properties *)

Count(ops) == Cardinality(Positions(trace, ops))

GateReturned == pc # "checkStates"

TreeOps == {"os.RemoveAll", "Copy:rawFolder", "Copy:themedFolder"}

CopyOps == {"Copy:rawFolder", "Copy:themedFolder"}

ItemOps == {"CopyFile", "ModifyFile", "WriteFile"}

\* every operation after the gate that touches the destination
DestOps ==
    TreeOps \cup ItemOps \cup
    {"updateCSS", "updateAssets", "CopyFile:spicetifyWrapper",
     "AdditionalOptions", "CreateJunction"}

Before(opsA, opsB) ==
    \A i \in Positions(trace, opsA), j \in Positions(trace, opsB) : i < j

\* C1: with an Empty backup, whatever the host state and also when the
\* backup is reported Outdated as well, checkStates ends the process with
\* status 1, ReadAnswer is never called and nothing of the command runs.
C1_EmptyAborts ==
    (backStat.empty /\ GateReturned) =>
        /\ pc = "exited"
        /\ exitCode = "1"
        /\ Count({"ReadAnswer"}) = 0
        /\ Count(DestOps) = 0
        /\ dest = dest0

C1_Witness ==
    /\ backStat.empty
    /\ backStat.outdated
    /\ pc = "exited"
    /\ trace[Len(trace)] = Ev("os.Exit", <<"1">>)

\* C2: with an Outdated backup, a negative answer ends the process with
\* status 1 before the removal, any tree copy or the stylesheet update;
\* a positive answer lets the run go on to the asset install.
C2_DeclineStopsBeforeInstall ==
    (~backStat.empty /\ backStat.outdated /\ GateReturned) =>
        /\ Count({"ReadAnswer"}) = 1
        /\ \A k \in Positions(trace, {"ReadAnswer"}) :
              /\ trace[k].arg = <<"n">> =>
                    /\ pc = "exited"
                    /\ exitCode = "1"
                    /\ Count(DestOps) = 0
                    /\ dest = dest0
              /\ trace[k].arg = <<"y">> =>
                    /\ Count({"os.Exit"}) = 0
                    /\ pc = "InitSetting" => Len(trace) = k
                    /\ pc = "exited" => Count({"utils.Fatal"}) = 1

C2_Witness ==
    /\ ~backStat.empty
    /\ backStat.outdated
    /\ pc = "exited"
    /\ Count({"ReadAnswer"}) = 1
    /\ trace[Len(trace)] = Ev("os.Exit", <<"1">>)

\* C3: with a Current backup checkStates returns without prompting and
\* without ending the process; in every run ReadAnswer is called once when
\* the gate finds the backup Outdated and never otherwise.
C3_PromptOnlyWhenOutdated ==
    /\ (~backStat.empty /\ ~backStat.outdated /\ GateReturned) =>
          /\ Count({"ReadAnswer", "os.Exit", "PrintWarning"}) = 0
          /\ pc = "exited" => Count({"utils.Fatal"}) = 1
    /\ Count({"ReadAnswer"}) =
          IF GateReturned /\ ~backStat.empty /\ backStat.outdated
          THEN 1 ELSE 0

C3_Witness ==
    /\ ~backStat.empty
    /\ ~backStat.outdated
    /\ pc = "done"
    /\ Count(ItemOps) > 0

\* C4: in Apply every removal and tree copy comes before updateCSS, and
\* updateCSS before the first extension or custom-app write; a run that
\* writes an item has updated the stylesheet, and no tree copy follows an
\* injection.
C4_InstallThenStyleThenItems ==
    /\ Before(TreeOps, {"updateCSS"})
    /\ Before({"updateCSS"}, ItemOps \cup {"CreateJunction"})
    /\ Before(TreeOps, ItemOps \cup {"CreateJunction"})
    /\ Count(ItemOps) > 0 => Count({"updateCSS"}) = 1
    /\ Count({"updateCSS"}) > 0 => Count(CopyOps) > 0

C4_Witness ==
    /\ pc = "done"
    /\ Count({"Copy:themedFolder"}) = 1
    /\ Count({"updateCSS"}) = 1
    /\ Count({"CopyFile"}) > 0
    /\ Count({"WriteFile"}) > 0

\* C5: in Raw mode on a destination never applied, the asset install
\* leaves exactly the raw tree, whatever the destination held.
C5_RawInstallEqualsRawTree ==
    (cmd = "Apply" /\ pc = "updateCSS" /\ ~replaceColors /\ ~destApplied) =>
        /\ dest = RawTree
        /\ \A p \in DOMAIN dest0 \ DOMAIN RawTree : p \notin DOMAIN dest

C5_Witness ==
    /\ pc = "updateCSS"
    /\ ~replaceColors
    /\ ~destApplied
    /\ dest0 = StockDest
    /\ dest = RawTree

\* C6 as claimed: in Themed mode, when the asset install is done, the
\* destination was never removed and no file it held has been deleted.
C6_ThemedNeverRemoves ==
    (cmd = "Apply" /\ replaceColors /\ pc = "updateCSS") =>
        /\ Count({"os.RemoveAll"}) = 0
        /\ DOMAIN dest0 \subseteq DOMAIN dest

\* C6: in Themed mode Apply removes the destination exactly when it was
\* never applied; on an applied destination the themed tree is only laid
\* over what is there and no file is deleted.
C6_ThemedRemovesOnlyNeverApplied ==
    (cmd = "Apply" /\ replaceColors) =>
        /\ destApplied =>
              /\ Count({"os.RemoveAll"}) = 0
              /\ DOMAIN dest0 \subseteq DOMAIN dest
              /\ pc = "updateCSS" =>
                    \A p \in DOMAIN dest :
                       dest[p] = IF p \in DOMAIN ThemedTree
                                 THEN ThemedTree[p] ELSE dest0[p]
        /\ (~destApplied /\ pc \notin {"extractStock"}) =>
              Count({"os.RemoveAll"}) = 1

C6_Witness ==
    /\ replaceColors
    /\ destApplied
    /\ pc = "updateCSS"
    /\ dest0 = AppliedDest
    /\ dest[Join(xpui, <<"old", ".js">>)] = <<"old-extension">>

\* C7 as claimed: exactly one tree copy has run when updateCSS starts.
C7_ExactlyOneCopy ==
    (cmd = "Apply" /\ pc = "updateCSS") => Count(CopyOps) = 1

\* C7: when updateCSS starts the raw folder was copied once unless the
\* destination was applied and colors are replaced, and the themed folder
\* once exactly when colors are replaced: one copy, or, with colors
\* replaced on a destination never applied, the raw copy then the themed
\* one; never none and never the raw folder twice.
C7_OneCopyOrRawThenThemed ==
    (cmd = "Apply" /\ pc = "updateCSS") =>
        /\ Count({"Copy:rawFolder"}) =
              IF replaceColors /\ destApplied THEN 0 ELSE 1
        /\ Count({"Copy:themedFolder"}) = IF replaceColors THEN 1 ELSE 0
        /\ Count(CopyOps) = IF replaceColors /\ ~destApplied THEN 2 ELSE 1
        /\ Before({"Copy:rawFolder"}, {"Copy:themedFolder"})
        /\ \A k \in Positions(trace, CopyOps) : trace[k].arg = <<"ok">>

C7_Witness ==
    /\ pc = "updateCSS"
    /\ replaceColors
    /\ ~destApplied
    /\ Count(CopyOps) = 2


\* the items of the extension list processed so far
Processed == 1..extIdx

CopiedFrom(path) == \E k \in Positions(trace, {"CopyFile"}) : trace[k].arg = path

NotFound(name) ==
    \E k \in Positions(trace, {"PrintError:not-found"}) : trace[k].arg = name

\* C8: a relative name is installed from the user folder whenever it is
\* there, from the bundled folder only when it is absent from the user
\* folder and present in the bundled one, and is reported not found only
\* when it is in neither; the file installed is the one at that path.
C8_UserFolderFirst ==
    \A k \in Processed :
       LET v == extentionList[k]
           installed == Join(xpui, v)
       IN  ~IsAbs(v) =>
             /\ Exists(srcfs, InUser(v)) =>
                   /\ CopiedFrom(InUser(v))
                   /\ ~CopiedFrom(InBundled(v))
                   /\ ~NotFound(v)
                   /\ Split(dest[installed])[1] = Split(srcfs[InUser(v)])[1]
                   /\ ~HasSuffix(v, <<MJS>>) => dest[installed] = srcfs[InUser(v)]
             /\ (~Exists(srcfs, InUser(v)) /\ Exists(srcfs, InBundled(v))) =>
                   /\ CopiedFrom(InBundled(v))
                   /\ ~NotFound(v)
                   /\ Split(dest[installed])[1] = Split(srcfs[InBundled(v)])[1]
                   /\ ~HasSuffix(v, <<MJS>>) => dest[installed] = srcfs[InBundled(v)]
             /\ (~Exists(srcfs, InUser(v)) /\ ~Exists(srcfs, InBundled(v))) =>
                   /\ NotFound(v)
                   /\ ~CopiedFrom(InUser(v))
                   /\ ~CopiedFrom(InBundled(v))
                   /\ installed \in DOMAIN dest => installed \in DOMAIN dest0
             /\ NotFound(v) =>
                   (~Exists(srcfs, InUser(v)) /\ ~Exists(srcfs, InBundled(v)))

C8_Witness ==
    /\ extIdx >= 1
    /\ extentionList[1] = A_JS
    /\ Exists(srcfs, InUser(A_JS))
    /\ Exists(srcfs, InBundled(A_JS))
    /\ srcfs[InUser(A_JS)] # srcfs[InBundled(A_JS)]
    /\ dest[Join(xpui, A_JS)] = srcfs[InUser(A_JS)]

IsDirective(line) == FindSymbol(line) # <<>>

\* no directive line directly follows a directive line
Unchained(lines) ==
    \A i \in 2..Len(lines) : ~(IsDirective(lines[i - 1]) /\ IsDirective(lines[i]))

\* the source path of a processed item that was copied
SourceOf(v) == IF IsAbs(v) THEN v ELSE getExtensionPath(srcfs, v).path

WasCopied(v) ==
    /\ IsAbs(v) \/ ~getExtensionPath(srcfs, v).err
    /\ Readable(srcfs, SourceOf(v))

\* C9 as claimed, for module scripts where no directive follows a
\* directive: the line after a directive {A}{B} that has a following line
\* is the source line with the first A replaced by B, the directive line,
\* the number of lines and every line not after a directive are as in the
\* source; a file that is not a module script is copied verbatim.
C9_RemapNextLineOnly ==
    \A k \in Processed :
       LET v   == extentionList[k]
           src == Split(srcfs[SourceOf(v)])
           out == Split(dest[Join(xpui, Base(v))])
       IN  WasCopied(v) =>
             IF HasSuffix(Base(v), <<MJS>>)
             THEN Unchained(src) =>
                    /\ Len(out) = Len(src)
                    /\ \A i \in 1..Len(src) :
                          /\ (IsDirective(src[i]) /\ i < Len(src)) =>
                                /\ out[i] = src[i]
                                /\ out[i + 1] =
                                      ReplaceFirst(src[i + 1],
                                                   FindSymbol(src[i])[1],
                                                   FindSymbol(src[i])[2])
                          /\ (i = 1 \/ ~IsDirective(src[i - 1])) =>
                                out[i] = src[i]
             ELSE dest[Join(xpui, Base(v))] = srcfs[SourceOf(v)]

\* C10 as claimed: a directive on the last line of a module script changes
\* nothing: the remap ends normally, the last line is as in the source,
\* the directives before it are applied and the loop goes on.
C10_LastLineDirectiveNoOp ==
    \A k \in Processed :
       LET v   == extentionList[k]
           src == Split(srcfs[SourceOf(v)])
           out == Split(dest[Join(xpui, Base(v))])
       IN  (/\ WasCopied(v)
            /\ HasSuffix(Base(v), <<MJS>>)
            /\ IsDirective(src[Len(src)])
            /\ Unchained(src)) =>
             /\ Count({"panic"}) = 0
             /\ exitCode # "2"
             /\ pc \in {"pushExtensions", "done"}
             /\ Len(out) = Len(src)
             /\ out[Len(src)] = src[Len(src)]
             /\ \A i \in 1..(Len(src) - 1) :
                   IsDirective(src[i]) =>
                      out[i + 1] = ReplaceFirst(src[i + 1], FindSymbol(src[i])[1],
                                                FindSymbol(src[i])[2])

----------------------------------------------------------------------------
(* custom apps *)

AppsProcessed == 1..appIdx

AppId(app) == <<"spicetify-routes-">> \o app

\* the destination file of an app with extension ext
Artifact(app, ext) == Join(xpui, AppId(app) \o <<ext>>)

AppExts == {".json", ".js", ".css"}

AppResolves(app) == ~getCustomAppPath(srcfs, app).err

AppPath(app, file) == Join(getCustomAppPath(srcfs, app).path, <<file>>)

HasIndex(app) == AppResolves(app) /\ Readable(srcfs, AppPath(app, "index.js"))

\* the app is bundled: it resolves and its index.js can be read
Bundled(app) == HasIndex(app)

ManifestReadable(app) == Readable(srcfs, AppPath(app, "manifest.json"))

ManifestParses(app) ==
    /\ ManifestReadable(app)
    /\ ~Unmarshal(srcfs[AppPath(app, "manifest.json")]).err

Listed(app) == Unmarshal(srcfs[AppPath(app, "manifest.json")]).Files

\* the contents of the listed subfiles that can be read, in list order,
\* each after a newline
RECURSIVE SubfileText(_, _)
SubfileText(app, files) ==
    IF files = <<>> THEN <<>>
    ELSE (IF Readable(srcfs, AppPath(app, Head(files)))
          THEN <<NL>> \o srcfs[AppPath(app, Head(files))]
          ELSE <<>>)
         \o SubfileText(app, Tail(files))

Wrote(path) == \E k \in Positions(trace, {"WriteFile"}) : trace[k].arg = path

\* C11: for every processed custom app with a readable index.js and a
\* parsable manifest, <id>.js wraps the index.js content followed by a
\* newline and the content of each listed subfile that can be read, in list
\* order; a subfile that cannot be read adds nothing and stops nothing.
C11_PayloadIsIndexThenReadableSubfiles ==
    \A k \in AppsProcessed :
        LET app == customAppsList[k]
        IN  (HasIndex(app) /\ ManifestParses(app)) =>
                /\ Wrote(Artifact(app, ".js"))
                /\ dest[Artifact(app, ".js")] =
                       jsTemplate(AppId(app),
                                  srcfs[AppPath(app, "index.js")]
                                      \o SubfileText(app, Listed(app)))

\* app1 processed with a manifest listing x.js, which is missing, and then
\* y.js: the payload is the index, a newline and y.js
C11_Witness ==
    /\ appIdx >= 1
    /\ customAppsList[1] = APP1
    /\ HasIndex(APP1)
    /\ ManifestParses(APP1)
    /\ Listed(APP1) = <<"x.js", "y.js">>
    /\ ~Readable(srcfs, AppPath(APP1, "x.js"))
    /\ Readable(srcfs, AppPath(APP1, "y.js"))
    /\ dest[Artifact(APP1, ".js")] =
           jsTemplate(AppId(APP1), Index("u") \o <<NL, "u", "y.js">>)

\* C12: for every processed custom app that resolves and has index.js but
\* whose manifest.json cannot be read, <id>.json holds exactly {}, <id>.js
\* and <id>.css are written, and the payload of <id>.js is the index.js
\* content alone.
C12_UnreadableManifestBecomesEmptyObject ==
    \A k \in AppsProcessed :
        LET app == customAppsList[k]
        IN  (HasIndex(app) /\ ~ManifestReadable(app)) =>
                /\ \A ext \in AppExts :
                      Wrote(Artifact(app, ext)) /\ Exists(dest, Artifact(app, ext))
                /\ dest[Artifact(app, ".json")] = <<"{", "}">>
                /\ dest[Artifact(app, ".js")] =
                       jsTemplate(AppId(app), srcfs[AppPath(app, "index.js")])

\* app1 processed with subfiles on disk and a manifest.json that is a
\* directory
C12_Witness ==
    /\ appIdx >= 1
    /\ customAppsList[1] = APP1
    /\ HasIndex(APP1)
    /\ Exists(srcfs, AppPath(APP1, "manifest.json"))
    /\ ~ManifestReadable(APP1)
    /\ Readable(srcfs, AppPath(APP1, "x.js"))
    /\ dest[Artifact(APP1, ".json")] = <<"{", "}">>
    /\ dest[Artifact(APP1, ".js")] = jsTemplate(AppId(APP1), Index("u"))

\* C13: for every processed custom app whose manifest.json is readable but
\* does not parse, <id>.json holds {} and not the bytes read, and the app
\* is bundled with the index.js content alone as payload.
C13_UnparsableManifestBecomesEmptyObject ==
    \A k \in AppsProcessed :
        LET app == customAppsList[k]
        IN  (HasIndex(app) /\ ManifestReadable(app) /\ ~ManifestParses(app)) =>
                /\ dest[Artifact(app, ".json")] = <<"{", "}">>
                /\ dest[Artifact(app, ".js")] =
                       jsTemplate(AppId(app), srcfs[AppPath(app, "index.js")])

\* the part of C13 the code keeps: the app is bundled with the index.js
\* content alone, and <id>.json holds the bytes read
C13_UnparsableManifestWrittenAsRead ==
    \A k \in AppsProcessed :
        LET app == customAppsList[k]
        IN  (HasIndex(app) /\ ManifestReadable(app) /\ ~ManifestParses(app)) =>
                /\ dest[Artifact(app, ".json")] =
                       srcfs[AppPath(app, "manifest.json")]
                /\ dest[Artifact(app, ".js")] =
                       jsTemplate(AppId(app), srcfs[AppPath(app, "index.js")])

\* C14: processing a custom app that does not resolve, or that has no
\* readable index.js, writes none of <id>.json, <id>.js, <id>.css: the
\* destination files with its id are as they were before the item,
\* whatever manifest.json and style.css it has.
C14_SkippedAppWritesNothing ==
    [][(pc = "pushApps" /\ appIdx' = appIdx + 1 /\ appIdx < Len(customAppsList)) =>
          LET app == customAppsList[appIdx + 1]
          IN  ~HasIndex(app) =>
                /\ \A ext \in AppExts :
                      /\ Exists(dest', Artifact(app, ext))
                             <=> Exists(dest, Artifact(app, ext))
                      /\ Exists(dest, Artifact(app, ext)) =>
                             dest'[Artifact(app, ext)] = dest[Artifact(app, ext)]
                /\ Positions(trace', {"WriteFile"}) = Positions(trace, {"WriteFile"})
      ]_vars

\* app1 resolves in the user folder with a manifest and a style sheet but
\* no readable index.js: it was reported and the bundle of the earlier run
\* is still there, with no manifest beside it
C14_Witness ==
    /\ appIdx >= 1
    /\ customAppsList[1] = APP1
    /\ AppResolves(APP1)
    /\ ~HasIndex(APP1)
    /\ ManifestReadable(APP1)
    /\ Readable(srcfs, AppPath(APP1, "style.css"))
    /\ Count({"PrintError:no-index.js"}) = 1
    /\ dest[Artifact(APP1, ".js")] = <<"old-bundle">>
    /\ ~Exists(dest, Artifact(APP1, ".json"))

----------------------------------------------------------------------------
(* failures of items *)

Resolves(v) == IsAbs(v) \/ ~getExtensionPath(srcfs, v).err

\* the item resolves and the copy of its file fails
CopyFails(v) == Resolves(v) /\ ~Readable(srcfs, SourceOf(v))

\* the first operation of an iteration of pushExtensions
IsItemStart(e) == e.op \in {"CopyFile", "PrintError:not-found"}

\* the name of the item an iteration started with
ItemOf(e) == IF e.op = "CopyFile" THEN Base(e.arg) ELSE e.arg

ItemStarts == SelectSeq(trace, IsItemStart)

Reports(op, name) ==
    Cardinality({k \in Positions(trace, {op}) : trace[k].arg = name})

AfterExtensionLoop == {"nodeModuleSymlink", "pushApps", "patch", "done"}

\* C15: whatever items of the extension list fail (name not resolved or
\* copy failed), pushExtensions processes every item in list order,
\* installs every item that resolves and copies whatever failed before it,
\* reports a failure once for each failing item and for no other, and never
\* aborts the run.
C15_ExtensionFailuresIsolated ==
    /\ Count({"panic"}) = 0
    /\ extIdx > 0 => pc # "exited"
    /\ (Len(extentionList) > 0 /\ pc \in AfterExtensionLoop) =>
           extIdx = Len(extentionList)
    /\ [k \in 1..Len(ItemStarts) |-> ItemOf(ItemStarts[k])]
           = SubSeq(extentionList, 1, extIdx)
    /\ \A k \in Processed :
          LET v == extentionList[k]
              same == {j \in Processed : extentionList[j] = v}
          IN  /\ WasCopied(v) =>
                    /\ CopiedFrom(SourceOf(v))
                    /\ Exists(dest, Join(xpui, Base(v)))
              /\ Reports("PrintError:not-found", v) =
                    IF Resolves(v) THEN 0 ELSE Cardinality(same)
              /\ Reports("PrintError:copy", v) =
                    IF CopyFails(v) THEN Cardinality(same) ELSE 0

\* C16: once the gate, the asset install and the stylesheet step of Apply
\* have succeeded the run ends with the success report and in no other
\* way, whatever items fail; and pushApps processes every app of its list,
\* bundling each app that has an index.js whatever came before it.
C16_SuccessWhateverItemsFail ==
    /\ (cmd = "Apply" /\ Count({"updateCSS"}) = 1) =>
           /\ pc # "exited"
           /\ exitCode \in {"running", "0"}
           /\ pc = "done" =>
                 /\ exitCode = "0"
                 /\ trace[Len(trace)] = Ev("PrintSuccess", <<"spiced up">>)
    /\ (Len(customAppsList) > 0 /\ pc \in {"patch", "done"}) =>
           appIdx = Len(customAppsList)
    /\ \A k \in AppsProcessed :
          Bundled(customAppsList[k]) =>
              \A ext \in AppExts : Wrote(Artifact(customAppsList[k], ext))

\* the remap as claimed: the line after a directive is rewritten and
\* skipped, a directive on the last line does nothing
RECURSIVE RemapSkipping(_, _)
RemapSkipping(lines, i) ==
    IF i > Len(lines) THEN lines
    ELSE IF IsDirective(lines[i]) /\ i < Len(lines)
    THEN RemapSkipping(
             [lines EXCEPT ![i + 1] =
                 ReplaceFirst(lines[i + 1], FindSymbol(lines[i])[1],
                              FindSymbol(lines[i])[2])],
             i + 2)
    ELSE RemapSkipping(lines, i + 1)

\* C17: in a module script whose remap ends normally, the line after a
\* directive is rewritten once and never read as a directive itself, in its
\* original or rewritten form: scanning goes on two lines further.
C17_RewrittenLineNotRescanned ==
    \A k \in Processed :
       LET v == extentionList[k]
       IN  (/\ WasCopied(v)
            /\ HasSuffix(Base(v), <<MJS>>)
            /\ ~Remap(srcfs[SourceOf(v)]).panic) =>
              Split(dest[Join(xpui, Base(v))])
                  = RemapSkipping(Split(srcfs[SourceOf(v)]), 1)

FailedTreeOps == {k \in Positions(trace, TreeOps) : trace[k].arg = <<"err">>}

AfterInstall ==
    {"updateCSS", "updateAssets", "CopyFile:spicetifyWrapper",
     "AdditionalOptions", "CreateJunction", "Patch", "PrintSuccess"}
        \cup ItemOps

\* C18: when the removal of the destination or a copy of the raw or themed
\* tree fails, Apply ends at once as Fatal: the failed operation is the last
\* one on the tree, nothing of the later steps runs, the operation is not
\* tried again and no success is reported.
C18_FailedInstallIsFatal ==
    \A k \in FailedTreeOps :
        /\ pc = "exited"
        /\ exitCode = "1"
        /\ k = Len(trace) - 1
        /\ trace[Len(trace)] = Ev("utils.Fatal", <<"1">>)
        /\ Cardinality(Positions(trace, {trace[k].op})) = 1
        /\ Count(AfterInstall) = 0
        /\ extIdx = 0
        /\ appIdx = 0

\* the themed copy failed after a removal and a raw copy that succeeded
C18_Witness ==
    /\ cmd = "Apply"
    /\ pc = "exited"
    /\ Len(trace) = 4
    /\ trace[1] = Ev("os.RemoveAll", <<"ok">>)
    /\ trace[2] = Ev("Copy:rawFolder", <<"ok">>)
    /\ trace[3] = Ev("Copy:themedFolder", <<"err">>)
    /\ Len(extentionList) > 0
    /\ Len(customAppsList) > 0

----------------------------------------------------------------------------
(* the link and the gate of every entry point *)

ExtensionOps ==
    {"CopyFile", "ModifyFile", "PrintError:not-found", "PrintError:copy"}

AppOps == {"WriteFile", "PrintError:app-not-found", "PrintError:no-index.js"}

LinkOps == {"CreateJunction", "PrintError:symlink"}

LinkDest == Join(xpui, NODE_MODULES)

\* the dependency folder: the one of the user when it exists, else the
\* bundled one
LinkSource ==
    IF Exists(srcfs, InUser(NODE_MODULES)) THEN InUser(NODE_MODULES)
    ELSE InBundled(NODE_MODULES)

LinkResolves ==
    Exists(srcfs, InUser(NODE_MODULES)) \/ Exists(srcfs, InBundled(NODE_MODULES))

\* C19: in Apply nodeModuleSymlink runs when every extension item has been
\* processed and before any custom-app item; the folder linked is the one
\* of the user folder when it is there and the bundled one otherwise; when
\* it is in neither place the step changes nothing and reports nothing;
\* when the link cannot be created the step reports it and the run goes on.
C19_LinkAfterExtensionsBeforeApps ==
    [][/\ (pc = "pushExtensions" /\ pc' # pc) =>
              pc' \in {"nodeModuleSymlink", "exited"}
       /\ pc' = "pushApps" => pc \in {"nodeModuleSymlink", "pushApps"}
                                 \/ Len(extentionList) = 0
       /\ pc = "nodeModuleSymlink" =>
              /\ cmd = "Apply"
              /\ extIdx = Len(extentionList)
              /\ appIdx = 0
              /\ Count(AppOps \cup LinkOps) = 0
              /\ pc' \in {"pushApps", "patch"}
              /\ exitCode' = "running"
              /\ IF ~LinkResolves
                 THEN dest' = dest /\ trace' = trace
                 ELSE \/ /\ trace' = trace \o <<Ev("CreateJunction", LinkSource)>>
                         /\ dest' = WriteFile(dest, LinkDest, <<"->">> \o LinkSource)
                      \/ /\ trace' = trace \o <<Ev("CreateJunction", LinkSource),
                                                Ev("PrintError:symlink", <<>>)>>
                         /\ dest' = dest
      ]_vars

\* node_modules is in both folders, the link to the user folder could not
\* be created, and the run went on to bundle an app and report success
C19_Witness ==
    /\ Exists(srcfs, InUser(NODE_MODULES))
    /\ Exists(srcfs, InBundled(NODE_MODULES))
    /\ \E k \in Positions(trace, {"CreateJunction"}) :
          /\ trace[k].arg = InUser(NODE_MODULES)
          /\ k < Len(trace)
          /\ trace[k + 1].op = "PrintError:symlink"
          /\ \A j \in Positions(trace, ExtensionOps) : j < k
          /\ \E j \in Positions(trace, {"WriteFile"}) : k < j
    /\ Count(ExtensionOps) > 0
    /\ pc = "done"
    /\ exitCode = "0"

\* checkStates returned and let the command proceed
GateProceeded ==
    /\ GateReturned
    /\ ~backStat.empty
    /\ backStat.outdated =>
          \E r \in Positions(trace, {"ReadAnswer"}) : trace[r].arg = <<"y">>

\* C20: in Apply, UpdateTheme and UpdateAllExtension nothing is removed,
\* copied, written or linked in the destination before checkStates has let
\* the command proceed; UpdateTheme with a blank theme folder exits with a
\* non-zero status before any stylesheet write; UpdateAllExtension with an
\* empty extension list writes nothing.
C20_GateBeforeEveryMutation ==
    /\ Count(DestOps) > 0 =>
          /\ GateProceeded
          /\ \A r \in Positions(trace, {"ReadAnswer"}),
                j \in Positions(trace, DestOps) : r < j
    /\ (Count(DestOps) = 0 \/ ~GateProceeded) => dest = dest0
    /\ (cmd = "UpdateTheme" /\ GateProceeded /\ pc \in {"done", "exited"}
          /\ themeFolder = <<>>) =>
          /\ pc = "exited"
          /\ exitCode = "1"
          /\ Count(DestOps) = 0
          /\ dest = dest0
    /\ (cmd = "UpdateAllExtension" /\ Len(extentionList) = 0) =>
          /\ Count(DestOps) = 0
          /\ dest = dest0
          /\ pc # "pushExtensions"

\* UpdateTheme wrote the stylesheet after the user accepted an outdated
\* backup
C20_Witness ==
    /\ cmd = "UpdateTheme"
    /\ backStat.outdated
    /\ Len(trace) >= 4
    /\ trace[3] = Ev("ReadAnswer", <<"y">>)
    /\ trace[4] = Ev("updateCSS", <<>>)
    /\ dest # dest0
    /\ pc = "done"


============================================================================
